---- MODULE Spec2Model ----
(***************************************************************************)
(* A model of the slabs text-chunking library: the fixed, recursive,      *)
(* sentence, code, semantic and model-driven splitters, the chunk-capacity *)
(* value and the late-chunking pooler.  Documents are sequences of UTF-8   *)
(* bytes, offsets are byte offsets, and every operation is an operator     *)
(* computed the way its Rust code computes it.                             *)
(***************************************************************************)
EXTENDS Integers, Sequences, FiniteSets, TLC

VARIABLES
    fixed,          \* the FixedChunker built by FixedChunker::new, or its panic
    fixed_args,     \* the (size, overlap) given to that FixedChunker::new call
    fixed_text,     \* the document of the last FixedChunker::chunk call
    fixed_slabs,    \* the Vec<Slab> that call returned
    recursive,      \* the RecursiveChunker built by new / with_overlap, or its panic
    rec_text,       \* the document of the last RecursiveChunker::chunk call
    rec_out,        \* its outcome: the raw fragments and the slabs, or no return
    sentence,       \* the SentenceChunker built by SentenceChunker::new, or its panic
    sent_text,      \* the document of the last SentenceChunker::chunk call
    sent_slabs,     \* the Vec<Slab> that call returned
    capacity,       \* the ChunkCapacity value the caller holds
    cap_result,     \* the Result of the last ChunkCapacity::with_max call
    cap_call,       \* the receiver and the argument of that call
    code,           \* the CodeChunker built by CodeChunker::new
    code_text,      \* the source text of the last CodeChunker::chunk call
    code_tree,      \* the syntax tree the parser returned for it, or no tree
    code_out,       \* its outcome: the atomic units and the slabs, or no return
    pooler,         \* the LateChunkingPooler built by LateChunkingPooler::new
    pool_in,        \* the arguments of the last pool / pool_with_offsets call
    pool_out,       \* its outcome: the pooled vectors, or a panic
    semantic,       \* the SemanticChunker built by new / with_min_sentences
    sem_text,       \* the document of the last SemanticChunker::chunk call
    sem_embed,      \* what the embedding model answered in that call
    sem_out,        \* its outcome: sentences, split points and slabs
    model_chunker,  \* the ModelChunker built by ModelChunker::new
    model_text,     \* the document of the last ModelChunker::chunk call
    model_splits,   \* the cut-points the classifier predicted in that call
    model_out,      \* its outcome: the slabs, or a panic
    calls           \* the chunk calls in flight on one shared FixedChunker

vars == <<fixed, fixed_args, fixed_text, fixed_slabs, recursive, rec_text, rec_out,
          sentence, sent_text, sent_slabs, capacity, cap_result, cap_call,
          code, code_text, code_tree, code_out,
          pooler, pool_in, pool_out,
          semantic, sem_text, sem_embed, sem_out,
          model_chunker, model_text, model_splits, model_out, calls>>
fixed_vars == <<fixed, fixed_args, fixed_text, fixed_slabs>>
rec_vars == <<recursive, rec_text, rec_out>>
\* what the operations of one component leave alone
sent_vars == <<sentence, sent_text, sent_slabs>>
cap_vars == <<capacity, cap_result, cap_call>>
code_vars == <<code, code_text, code_tree, code_out>>
pool_vars == <<pooler, pool_in, pool_out>>
sem_vars == <<semantic, sem_text, sem_embed, sem_out>>
model_vars == <<model_chunker, model_text, model_splits, model_out>>
not_fixed == <<rec_vars, sent_vars, cap_vars, code_vars, pool_vars, sem_vars,
    model_vars, calls>>
not_rec == <<fixed_vars, sent_vars, cap_vars, code_vars, pool_vars, sem_vars,
    model_vars, calls>>
not_sent == <<fixed_vars, rec_vars, cap_vars, code_vars, pool_vars, sem_vars,
    model_vars, calls>>
not_cap == <<fixed_vars, rec_vars, sent_vars, code_vars, pool_vars, sem_vars,
    model_vars, calls>>
not_code == <<fixed_vars, rec_vars, sent_vars, cap_vars, pool_vars, sem_vars,
    model_vars, calls>>
not_pool == <<fixed_vars, rec_vars, sent_vars, cap_vars, code_vars, sem_vars,
    model_vars, calls>>
not_sem == <<fixed_vars, rec_vars, sent_vars, cap_vars, code_vars, pool_vars,
    model_vars, calls>>
not_fixed_calls == <<rec_vars, sent_vars, cap_vars, code_vars, pool_vars,
    sem_vars, model_vars>>
not_model == <<fixed_vars, rec_vars, sent_vars, cap_vars, code_vars, pool_vars,
    sem_vars, calls>>

(***************************************************************************)
(* Bounds of the model.                                                    *)
(***************************************************************************)
MaxLen == 5         \* longest document, in bytes
MaxSize == 4        \* largest chunk size / max_size tried
MaxOverlap == 2     \* largest overlap tried with the recursive splitter
MaxPerChunk == 2    \* largest sentences_per_chunk tried
MaxCap == 4         \* largest size and range end given to ChunkCapacity
MaxCodeLen == 4     \* longest source text given to the code splitter, in bytes
MaxChunkSize == 3   \* largest max_chunk_size tried
MaxChunkOverlap == 2 \* largest chunk_overlap tried
MaxTokens == 2      \* most token embeddings given to the pooler
MaxDocLen == 2      \* largest offset and doc_len given to the pooler
Scale == 1000       \* an f32 is held in units of 1/Scale
MaxMinSentences == 3 \* largest min_chunk_sentences tried
MaxCuts == 3        \* most cut-points a classifier predicts

(***************************************************************************)
(* UTF-8 text.  A document is a sequence of bytes; the characters used     *)
(* are 'a', 'b', ' ', '\n', U+00E9 (two bytes) and U+20AC (three bytes).   *)
(***************************************************************************)
CharA == <<97>>
CharB == <<98>>
CharSpace == <<32>>
CharNewline == <<10>>
CharBang == <<33>>
CharE9 == <<195, 169>>
CharEuro == <<226, 130, 172>>

RECURSIVE TextsOver(_, _)
\* every well-formed text of at most n bytes made of the characters in chars
TextsOver(chars, n) ==
    {<<>>} \cup UNION {{c \o t : t \in TextsOver(chars, n - Len(c))} :
                            c \in {d \in chars : Len(d) <= n}}

Min(a, b) == IF a <= b THEN a ELSE b
Max(a, b) == IF a >= b THEN a ELSE b
SatSub(a, b) == IF a >= b THEN a - b ELSE 0

\* text[start..end] with byte offsets, end exclusive
Slice(text, start, end) == SubSeq(text, start + 1, end)

\* str::is_char_boundary: offset 0 and len are boundaries, inside the text a
\* boundary is a byte that is not a UTF-8 continuation byte (0x80..0xBF)
IsCharBoundary(text, i) ==
    IF i = 0 THEN TRUE
    ELSE IF i >= Len(text) THEN i = Len(text)
    ELSE text[i + 1] < 128 \/ text[i + 1] >= 192

IsAscii(text) == \A i \in 1..Len(text) : text[i] < 128

Slab(text, start, end, index) ==
    [text |-> text, start |-> start, end |-> end, index |-> index]

NoChunker == [state |-> "none"]
Panicked == [state |-> "panicked"]

(***************************************************************************)
(* FixedChunker                                                            *)
(***************************************************************************)
\* a constructor that clamps an overlap that is too large instead of
\* rejecting it
FixedNewClamped(size, overlap) ==
    IF size > 0
    THEN [state |-> "ok", size |-> size, overlap |-> Min(overlap, size - 1)]
    ELSE Panicked

FixedNew(size, overlap) ==
    IF size > 0 /\ overlap < size
    THEN [state |-> "ok", size |-> size, overlap |-> overlap]
    ELSE Panicked

NoArgs == <<>>

\* a step that forgets the window is half-open
FixedStepOffByOne(c) == c.size - c.overlap + 1

FixedStep(c) == c.size - c.overlap

\* an end offset that is clamped to the length but never snapped
FloorCharBoundaryUnsnapped(text, end) == end

RECURSIVE FloorCharBoundary(_, _)
\* while !text.is_char_boundary(end) { end -= 1 }
FloorCharBoundary(text, end) ==
    IF IsCharBoundary(text, end) THEN end
    ELSE FloorCharBoundary(text, end - 1)

RECURSIVE CeilCharBoundary(_, _)
\* while start < text.len() && !text.is_char_boundary(start) { start += 1 }
CeilCharBoundary(text, start) ==
    IF start < Len(text) /\ ~IsCharBoundary(text, start)
    THEN CeilCharBoundary(text, start + 1)
    ELSE start

RECURSIVE FixedLoop(_, _, _, _)
\* the while loop of FixedChunker::chunk from the state (start, slabs)
FixedLoop(c, text, start, slabs) ==
    IF ~(start < Len(text)) THEN slabs
    ELSE
        LET end == FloorCharBoundary(text, Min(start + c.size, Len(text)))
            pushed == IF end > start
                      THEN Append(slabs, Slab(Slice(text, start, end), start, end, Len(slabs)))
                      ELSE slabs
            next_start == start + FixedStep(c)
        IN  IF next_start >= Len(text) \/ next_start <= start
            THEN pushed
            ELSE FixedLoop(c, text, CeilCharBoundary(text, next_start), pushed)

FixedChunk(c, text) ==
    IF text = <<>> THEN <<>> ELSE FixedLoop(c, text, 0, <<>>)

\* text_len.div_ceil(step), 0 for an empty text
EstimateChunks(c, text_len) ==
    IF text_len = 0 THEN 0
    ELSE (text_len + FixedStep(c) - 1) \div FixedStep(c)

FixedTexts == TextsOver({CharA, CharB, CharE9, CharEuro}, MaxLen)

FixedNewAct ==
    \E size \in 0..MaxSize, overlap \in 0..MaxSize :
        /\ fixed' = FixedNew(size, overlap)
        /\ fixed_args' = <<size, overlap>>
        /\ fixed_text' = <<>>
        /\ fixed_slabs' = <<>>
        /\ UNCHANGED not_fixed

\* one call at a time: chunk borrows the chunker and hands the caller a
\* Vec<Slab> that the caller owns and releases before the next call
FixedChunkAct ==
    /\ fixed.state = "ok"
    /\ fixed_text = <<>> /\ fixed_slabs = <<>>
    /\ \E text \in FixedTexts :
        /\ fixed_text' = text
        /\ fixed_slabs' = FixedChunk(fixed, text)
    /\ UNCHANGED <<fixed, fixed_args, not_fixed>>

(***************************************************************************)
(* RecursiveChunker                                                        *)
(***************************************************************************)
RecursiveNew(max_size, separators) ==
    IF max_size > 0 /\ separators # <<>>
    THEN [state |-> "ok", max_size |-> max_size, overlap |-> 0,
          separators |-> separators]
    ELSE Panicked

WithOverlap(c, overlap) == [c EXCEPT !.overlap = overlap]

\* the offset of the first occurrence of sep in text at or after from, or -1
RECURSIVE FindFrom(_, _, _)
FindFrom(text, sep, from) ==
    IF from + Len(sep) > Len(text) THEN -1
    ELSE IF Slice(text, from, from + Len(sep)) = sep THEN from
    ELSE FindFrom(text, sep, from + 1)

\* the characters of text, each as its own byte string
RECURSIVE CharsOf(_)
CharsOf(text) ==
    IF text = <<>> THEN <<>>
    ELSE LET n == CeilCharBoundary(text, 1)
         IN  <<Slice(text, 0, n)>> \o CharsOf(Slice(text, n, Len(text)))

\* str::split(sep): the parts between the non-overlapping occurrences of sep,
\* found left to right; an empty sep matches at every character boundary
RECURSIVE Split(_, _)
Split(text, sep) ==
    IF sep = <<>> THEN <<<<>>>> \o CharsOf(text) \o <<<<>>>>
    ELSE LET at == FindFrom(text, sep, 0)
         IN  IF at < 0 THEN <<text>>
             ELSE <<Slice(text, 0, at)>>
                    \o Split(Slice(text, at + Len(sep), Len(text)), sep)

\* a part that is pushed without the separator that followed it
WithSepDropped(parts, i, sep) == parts[i]

\* format!("{part}{sep}") for every part but the last
WithSep(parts, i, sep) ==
    IF i < Len(parts) THEN parts[i] \o sep ELSE parts[i]

Returned(frags) == [hang |-> FALSE, frags |-> frags]
NeverReturns == [hang |-> TRUE, frags |-> <<>>]

\* result.extend(more): a callee that never returns keeps the caller from
\* returning as well
Extend(result, more) ==
    IF result.hang \/ more.hang THEN NeverReturns
    ELSE Returned(result.frags \o more.frags)

RECURSIVE ForceSplitLoop(_, _, _, _)
\* the while loop of force_split from the state (start, result); when the
\* character at start is wider than max_size, end snaps back onto start,
\* nothing is pushed and start = end leaves the state unchanged for ever
ForceSplitLoop(c, text, start, result) ==
    IF ~(start < Len(text)) THEN Returned(result)
    ELSE
        LET end == FloorCharBoundary(text, Min(start + c.max_size, Len(text)))
        IN  IF end > start
            THEN ForceSplitLoop(c, text, end, Append(result, Slice(text, start, end)))
            ELSE NeverReturns

ForceSplit(c, text) == ForceSplitLoop(c, text, 0, <<>>)

RECURSIVE SplitRecursive(_, _, _)
RECURSIVE SplitLoop(_, _, _, _, _, _)
RECURSIVE Flush(_, _, _, _)

\* a full fragment that is pushed whatever its size
FlushUnchecked(c, current, sep_index, result) ==
    Extend(result, Returned(<<current>>))

\* a full running fragment is pushed, or refined with the next separator
Flush(c, current, sep_index, result) ==
    IF Len(current) <= c.max_size
    THEN Extend(result, Returned(<<current>>))
    ELSE Extend(result, SplitRecursive(c, current, sep_index + 1))

\* the for loop of split_recursive over parts[i..], from (current, result)
SplitLoop(c, parts, i, sep_index, current, result) ==
    IF i > Len(parts)
    THEN IF current # <<>> THEN Flush(c, current, sep_index, result) ELSE result
    ELSE
        LET with_sep == WithSep(parts, i, c.separators[sep_index + 1])
        IN  IF current = <<>>
            THEN SplitLoop(c, parts, i + 1, sep_index, with_sep, result)
            ELSE IF Len(current) + Len(with_sep) <= c.max_size
            THEN SplitLoop(c, parts, i + 1, sep_index, current \o with_sep, result)
            ELSE SplitLoop(c, parts, i + 1, sep_index, with_sep,
                           Flush(c, current, sep_index, result))

SplitRecursive(c, text, sep_index) ==
    IF Len(text) <= c.max_size \/ sep_index >= Len(c.separators)
    THEN IF Len(text) <= c.max_size THEN Returned(<<text>>)
         ELSE ForceSplit(c, text)
    ELSE
        LET parts == Split(text, c.separators[sep_index + 1])
        IN  IF Len(parts) = 1
            THEN SplitRecursive(c, text, sep_index + 1)
            ELSE SplitLoop(c, parts, 1, sep_index, <<>>, Returned(<<>>))

RECURSIVE SnapStartBack(_, _)
\* while start_with_overlap > 0 && !text.is_char_boundary(start_with_overlap)
SnapStartBack(text, start_with_overlap) ==
    IF start_with_overlap > 0 /\ ~IsCharBoundary(text, start_with_overlap)
    THEN SnapStartBack(text, start_with_overlap - 1)
    ELSE start_with_overlap

\* the start of a chunk [start, end) pulled backward for the overlap
StartWithOverlap(c, text, start, end) ==
    LET pulled == SatSub(start, c.overlap)
        bounded == IF SatSub(end, pulled) > c.max_size
                   THEN SatSub(end, c.max_size) ELSE pulled
    IN  SnapStartBack(text, bounded)

RECURSIVE RecursiveWalk(_, _, _, _, _, _)
\* the offset walk of RecursiveChunker::chunk over chunks[index..]
RecursiveWalk(c, text, chunks, index, cursor, slabs) ==
    IF index >= Len(chunks) THEN slabs
    ELSE
        LET start == cursor
            end == start + Len(chunks[index + 1])
            swo == StartWithOverlap(c, text, start, end)
        IN  RecursiveWalk(c, text, chunks, index + 1, end,
                          Append(slabs, Slab(Slice(text, swo, end), swo, end, index)))

RecIdle == [status |-> "none", frags |-> <<>>, slabs |-> <<>>]

RecursiveChunk(c, text) ==
    IF text = <<>> THEN [status |-> "ok", frags |-> <<>>, slabs |-> <<>>]
    ELSE
        LET chunks == SplitRecursive(c, text, 0)
        IN  IF chunks.hang
            THEN [status |-> "hang", frags |-> <<>>, slabs |-> <<>>]
            ELSE [status |-> "ok", frags |-> chunks.frags,
                  slabs |-> RecursiveWalk(c, text, chunks.frags, 0, 0, <<>>)]

RecTexts == TextsOver({CharA, CharSpace, CharE9}, MaxLen)

SepSpace == <<32>>
SepTwoSpaces == <<32, 32>>
SepNewline == <<10>>
SepBlankLine == <<10, 10>>
SepEmpty == <<>>

\* separator hierarchies, coarsest first; the last is the one collect_leafs uses
SeparatorLists ==
    { <<>>,
      <<SepSpace>>,
      <<SepTwoSpaces, SepSpace>>,
      <<SepSpace, SepEmpty>>,
      <<SepBlankLine, SepNewline, SepSpace, SepEmpty>> }

RecursiveNewAct ==
    \E max_size \in 0..MaxSize, separators \in SeparatorLists :
        /\ recursive' = RecursiveNew(max_size, separators)
        /\ rec_text' = <<>>
        /\ rec_out' = RecIdle
        /\ UNCHANGED not_rec

RecursiveWithOverlapAct ==
    /\ recursive.state = "ok"
    /\ \E overlap \in 0..MaxOverlap :
        recursive' = WithOverlap(recursive, overlap)
    /\ rec_text' = <<>>
    /\ rec_out' = RecIdle
    /\ UNCHANGED not_rec

RecursiveChunkAct ==
    /\ recursive.state = "ok"
    /\ rec_out.status = "none"
    /\ \E text \in RecTexts :
        /\ rec_text' = text
        /\ rec_out' = RecursiveChunk(recursive, text)
    /\ UNCHANGED <<recursive, not_rec>>

(***************************************************************************)
(* SentenceChunker                                                         *)
(***************************************************************************)
SentenceNew(sentences_per_chunk) ==
    IF sentences_per_chunk > 0
    THEN [state |-> "ok", sentences_per_chunk |-> sentences_per_chunk]
    ELSE Panicked

\* char::is_whitespace for the characters of the model
IsWhitespace(b) == b \in {9, 10, 13, 32}

RECURSIVE TrimStart(_)
TrimStart(text) ==
    IF text # <<>> /\ IsWhitespace(Head(text)) THEN TrimStart(Tail(text)) ELSE text

RECURSIVE TrimEnd(_)
TrimEnd(text) ==
    IF text # <<>> /\ IsWhitespace(text[Len(text)])
    THEN TrimEnd(SubSeq(text, 1, Len(text) - 1)) ELSE text

Trim(text) == TrimEnd(TrimStart(text))

\* UAX #29 for the characters of the model: '\n' is ParaSep, '!' is STerm,
\* ' ' is Sp, everything else is a letter.  The text before offset p ends
\* in STerm Sp* when skipping the spaces backward from p reaches a '!'.
RECURSIVE AfterTerminator(_, _)
AfterTerminator(text, p) ==
    IF p = 0 THEN FALSE
    ELSE IF text[p] = 32 THEN AfterTerminator(text, p - 1)
    ELSE text[p] = 33

\* there is a sentence boundary at offset p, 0 < p < len: after a paragraph
\* separator (SB4), or after STerm Sp* when what follows is none of Sp,
\* ParaSep and STerm (SB8a, SB9, SB10, SB11); nowhere else (SB998)
IsSentenceBreak(text, p) ==
    \/ text[p] = 10
    \/ /\ AfterTerminator(text, p)
       /\ text[p + 1] \notin {32, 10, 33}
       /\ IsCharBoundary(text, p)

\* text.split_sentence_bounds() paired with the running offset of the scan:
\* the sentences from offset start on, as <<offset, text>>
RECURSIVE SentencesFrom(_, _, _)
SentencesFrom(text, start, p) ==
    IF start >= Len(text) THEN <<>>
    ELSE IF p = Len(text) \/ IsSentenceBreak(text, p)
    THEN <<<<start, Slice(text, start, p)>>>> \o SentencesFrom(text, p, p + 1)
    ELSE SentencesFrom(text, start, p + 1)

SplitSentenceBounds(text) == SentencesFrom(text, 0, 1)

\* a filter that keeps the whitespace-only spans
NonBlankUnfiltered(sentences) == sentences

\* .filter(|(_, s)| !s.trim().is_empty())
NonBlank(sentences) == SelectSeq(sentences, LAMBDA s : Trim(s[2]) # <<>>)

RECURSIVE ConcatTexts(_)
\* chunk_sentences.iter().map(|(_, s)| *s).collect::<String>()
ConcatTexts(sentences) ==
    IF sentences = <<>> THEN <<>>
    ELSE Head(sentences)[2] \o ConcatTexts(Tail(sentences))

\* the source offsets of the window's first to last sentence
WindowSpan(chunk_sentences) ==
    [start |-> chunk_sentences[1][1],
     end |-> chunk_sentences[Len(chunk_sentences)][1]
                + Len(chunk_sentences[Len(chunk_sentences)][2])]

RECURSIVE SentenceWindows(_, _, _, _)
\* the for loop over sentences.chunks(sentences_per_chunk), from sentence k
SentenceWindows(c, sentences, k, slabs) ==
    IF k > Len(sentences) THEN slabs
    ELSE
        LET last == Min(k + c.sentences_per_chunk - 1, Len(sentences))
            chunk_sentences == SubSeq(sentences, k, last)
            span == WindowSpan(chunk_sentences)
            chunk_text == ConcatTexts(chunk_sentences)
            trimmed == Trim(chunk_text)
            leading_ws == Len(chunk_text) - Len(TrimStart(chunk_text))
            trailing_ws == Len(chunk_text) - Len(TrimEnd(chunk_text))
        IN  SentenceWindows(c, sentences, last + 1,
                IF trimmed # <<>>
                THEN Append(slabs, Slab(trimmed, span.start + leading_ws,
                                        span.end - trailing_ws, Len(slabs)))
                ELSE slabs)

SentenceChunk(c, text) ==
    IF text = <<>> THEN <<>>
    ELSE LET sentences == NonBlank(SplitSentenceBounds(text))
         IN  IF sentences = <<>> THEN <<>>
             ELSE SentenceWindows(c, sentences, 1, <<>>)

SentTexts == TextsOver({CharA, CharBang, CharSpace, CharNewline, CharE9}, MaxLen)

SentenceNewAct ==
    \E sentences_per_chunk \in 0..MaxPerChunk :
        /\ sentence' = SentenceNew(sentences_per_chunk)
        /\ sent_text' = <<>>
        /\ sent_slabs' = <<>>
        /\ UNCHANGED not_sent

SentenceChunkAct ==
    /\ sentence.state = "ok"
    /\ sent_text = <<>> /\ sent_slabs = <<>>
    /\ \E text \in SentTexts :
        /\ sent_text' = text
        /\ sent_slabs' = SentenceChunk(sentence, text)
    /\ UNCHANGED <<sentence, not_sent>>

(***************************************************************************)
(* ChunkCapacity                                                           *)
(***************************************************************************)
Capacity(desired, max) == [state |-> "ok", desired |-> desired, max |-> max]
NoCapacity == [state |-> "none"]
NoResult == [kind |-> "none"]
NoCall == [kind |-> "none"]

CapacityNew(size) == Capacity(size, size)

DefaultSize == 2048
CapacityDefault == CapacityNew(DefaultSize)

CapacityFromUsize(size) == CapacityNew(size)

\* From<Range<usize>>: start..end, end exclusive
CapacityFromRange(start, end) == Capacity(start, Max(SatSub(end, 1), start))

\* From<RangeInclusive<usize>>: start..=end
CapacityFromRangeInclusive(start, end) == Capacity(start, end)

\* a with_max that also refuses a max equal to desired
WithMaxStrict(self, max) ==
    IF max <= self.desired
    THEN [kind |-> "Err", error |-> "MaxLessThanDesired",
          desired |-> self.desired, max |-> max]
    ELSE [kind |-> "Ok", value |-> Capacity(self.desired, max)]

\* with_max on a copy of self: Err(MaxLessThanDesired) or Ok(Self { max, ..self })
WithMax(self, max) ==
    IF max < self.desired
    THEN [kind |-> "Err", error |-> "MaxLessThanDesired",
          desired |-> self.desired, max |-> max]
    ELSE [kind |-> "Ok", value |-> Capacity(self.desired, max)]

CapacityNewAct ==
    /\ \E size \in 0..MaxCap : capacity' = CapacityNew(size)
    /\ cap_result' = NoResult
    /\ cap_call' = NoCall
    /\ UNCHANGED not_cap

CapacityDefaultAct ==
    /\ capacity' = CapacityDefault
    /\ cap_result' = NoResult
    /\ cap_call' = NoCall
    /\ UNCHANGED not_cap

CapacityFromUsizeAct ==
    /\ \E size \in 0..MaxCap : capacity' = CapacityFromUsize(size)
    /\ cap_result' = NoResult
    /\ cap_call' = NoCall
    /\ UNCHANGED not_cap

CapacityFromRangeAct ==
    /\ \E start \in 0..MaxCap, end \in 0..MaxCap :
        capacity' = CapacityFromRange(start, end)
    /\ cap_result' = NoResult
    /\ cap_call' = NoCall
    /\ UNCHANGED not_cap

CapacityFromRangeInclusiveAct ==
    /\ \E start \in 0..MaxCap, end \in 0..MaxCap :
        capacity' = CapacityFromRangeInclusive(start, end)
    /\ cap_result' = NoResult
    /\ cap_call' = NoCall
    /\ UNCHANGED not_cap

\* capacity.with_max(max): the receiver is a copy, the caller keeps its value
CapacityWithMaxAct ==
    /\ capacity.state = "ok"
    /\ \E max \in 0..MaxCap :
        /\ cap_result' = WithMax(capacity, max)
        /\ cap_call' = [kind |-> "with_max", self |-> capacity, max |-> max]
    /\ UNCHANGED <<capacity, not_cap>>

\* let cap = result.unwrap(): the caller takes the Ok value
CapacityUnwrapAct ==
    /\ cap_result.kind = "Ok"
    /\ capacity' = cap_result.value
    /\ cap_result' = NoResult
    /\ cap_call' = NoCall
    /\ UNCHANGED not_cap

(***************************************************************************)
(* CodeChunker.  The parser is an external capability: its tree is an      *)
(* input of chunk, a node being [start, end, children].                    *)
(***************************************************************************)
CodeNew(max_chunk_size, chunk_overlap) ==
    [state |-> "ok", max_chunk_size |-> max_chunk_size,
     chunk_overlap |-> chunk_overlap]

Node(start, end, children) ==
    [start |-> start, end |-> end, children |-> children]

Units(units) == [status |-> "ok", units |-> units]
UnitsPanic == [status |-> "panic", units |-> <<>>]
UnitsHang == [status |-> "hang", units |-> <<>>]

\* the separators collect_leafs hands to the recursive splitter
LeafSeparators == <<SepBlankLine, SepNewline, SepSpace, SepEmpty>>

\* sub-chunks of a leaf left in the leaf's own coordinates
TranslateUnshifted(sub_chunks, start_byte) ==
    [k \in 1..Len(sub_chunks) |->
        Slab(sub_chunks[k].text, sub_chunks[k].start, sub_chunks[k].end, 0)]

\* sub-chunks of a leaf moved to document coordinates
Translate(sub_chunks, start_byte) ==
    [k \in 1..Len(sub_chunks) |->
        Slab(sub_chunks[k].text, start_byte + sub_chunks[k].start,
             start_byte + sub_chunks[k].end, 0)]

\* an oversized leaf: RecursiveChunker::new(max_chunk_size, ..).with_overlap(0)
\* .chunk(leaf_text); new panics on max_size = 0 and chunk may never return
SplitLeaf(c, node, text) ==
    LET made == RecursiveNew(c.max_chunk_size, LeafSeparators)
    IN  IF made.state # "ok" THEN UnitsPanic
        ELSE LET sub == RecursiveChunk(WithOverlap(made, 0),
                                       Slice(text, node.start, node.end))
             IN  IF sub.status # "ok" THEN UnitsHang
                 ELSE Units(Translate(sub.slabs, node.start))

\* the gap [from, to) as an atomic unit, unless it is empty or blank
GapUnit(text, from, to) ==
    IF to > from /\ Trim(Slice(text, from, to)) # <<>>
    THEN <<Slab(Slice(text, from, to), from, to, 0)>>
    ELSE <<>>

RECURSIVE CollectLeafs(_, _, _)
RECURSIVE CollectChildren(_, _, _, _, _, _)

\* the loop of collect_leafs over node.children[k..] from (last_end, chunks)
CollectChildren(c, node, text, k, last_end, chunks) ==
    IF k > Len(node.children)
    THEN Units(chunks \o GapUnit(text, last_end, node.end))
    ELSE
        LET child == node.children[k]
            of_child == CollectLeafs(c, child, text)
        IN  IF of_child.status # "ok" THEN of_child
            ELSE CollectChildren(c, node, text, k + 1, child.end,
                    chunks \o GapUnit(text, last_end, child.start) \o of_child.units)

CollectLeafs(c, node, text) ==
    IF node.end - node.start <= c.max_chunk_size
    THEN Units(<<Slab(Slice(text, node.start, node.end), node.start, node.end, 0)>>)
    ELSE IF node.children # <<>>
    THEN CollectChildren(c, node, text, 1, node.start, <<>>)
    ELSE SplitLeaf(c, node, text)

RECURSIVE InsertByStart(_, _)
InsertByStart(sorted, unit) ==
    IF sorted = <<>> THEN <<unit>>
    ELSE IF sorted[Len(sorted)].start <= unit.start THEN Append(sorted, unit)
    ELSE Append(InsertByStart(SubSeq(sorted, 1, Len(sorted) - 1), unit),
                sorted[Len(sorted)])

RECURSIVE SortByStart(_)
\* atomic_chunks.sort_by_key(|c| c.start), a stable sort
SortByStart(units) ==
    IF units = <<>> THEN <<>>
    ELSE InsertByStart(SortByStart(SubSeq(units, 1, Len(units) - 1)),
                       units[Len(units)])

RECURSIVE OverlapWalk(_, _, _, _, _, _)
\* an overlap walk that stops empty-handed when the first unit does not fit
OverlapWalkUnforced(c, atoms, i, j, overlap_size, overlap_chunks) ==
    IF j < 0 THEN overlap_chunks
    ELSE
        LET prev_chunk == atoms[j + 1]
            next_start == IF j = i - 1 THEN atoms[i + 1].start
                          ELSE atoms[j + 2].start
            gap_len == next_start - prev_chunk.end
            chunk_len == Len(prev_chunk.text)
        IN  IF overlap_size + chunk_len + gap_len > c.chunk_overlap
            THEN overlap_chunks
            ELSE OverlapWalk(c, atoms, i, j - 1,
                             overlap_size + chunk_len + gap_len,
                             Append(overlap_chunks, j))

\* the backward walk for j in (0..i).rev() from (overlap_size, overlap_chunks);
\* i and j are 0-based as in the code, atomic_chunks[j] is atoms[j + 1]
OverlapWalk(c, atoms, i, j, overlap_size, overlap_chunks) ==
    IF j < 0 THEN overlap_chunks
    ELSE
        LET prev_chunk == atoms[j + 1]
            next_start == IF j = i - 1 THEN atoms[i + 1].start
                          ELSE atoms[j + 2].start
            gap_len == next_start - prev_chunk.end
            chunk_len == Len(prev_chunk.text)
        IN  IF overlap_size + chunk_len + gap_len > c.chunk_overlap
            THEN IF overlap_chunks = <<>> THEN <<j>> ELSE overlap_chunks
            ELSE OverlapWalk(c, atoms, i, j - 1,
                             overlap_size + chunk_len + gap_len,
                             Append(overlap_chunks, j))

\* a seed of the last chunk_overlap bytes before the current unit
SeedByBytes(c, text, atoms, i, m) ==
    IF c.chunk_overlap > 0
    THEN LET from == Max(atoms[i].end - c.chunk_overlap, 0)
         IN  [m EXCEPT !.current_start = from,
                       !.current_text = Slice(text, from, atoms[i].end),
                       !.current_end = atoms[i].end]
    ELSE [m EXCEPT !.current_start = atoms[i + 1].start]

\* a seed whose text is the last overlap unit alone
SeedLastUnitOnly(c, text, atoms, i, m) ==
    IF c.chunk_overlap > 0
    THEN LET overlap_chunks == OverlapWalk(c, atoms, i, i - 1, 0, <<>>)
         IN  IF overlap_chunks # <<>>
             THEN LET first_chunk == atoms[overlap_chunks[Len(overlap_chunks)] + 1]
                      last_chunk == atoms[overlap_chunks[1] + 1]
                  IN  [m EXCEPT !.current_start = first_chunk.start,
                                !.current_text = last_chunk.text,
                                !.current_end = last_chunk.end]
             ELSE [m EXCEPT !.current_start = atoms[i + 1].start]
    ELSE [m EXCEPT !.current_start = atoms[i + 1].start]

\* the running chunk after a flush before atomic_chunks[i]; seeds keeps, for
\* every flush with chunk_overlap > 0, i and the overlap_chunks of the walk
Seed(c, text, atoms, i, m) ==
    IF c.chunk_overlap > 0
    THEN LET overlap_chunks == OverlapWalk(c, atoms, i, i - 1, 0, <<>>)
             walked == [m EXCEPT !.seeds = Append(@, [before |-> i,
                                                      units |-> overlap_chunks])]
         IN  IF overlap_chunks # <<>>
             THEN LET first_chunk == atoms[overlap_chunks[Len(overlap_chunks)] + 1]
                      last_chunk == atoms[overlap_chunks[1] + 1]
                  IN  [walked EXCEPT !.current_start = first_chunk.start,
                                     !.current_text = Slice(text, first_chunk.start,
                                                            last_chunk.end),
                                     !.current_end = last_chunk.end]
             ELSE [walked EXCEPT !.current_start = atoms[i + 1].start]
    ELSE [m EXCEPT !.current_start = atoms[i + 1].start]

\* a flush as soon as the running chunk would reach max_chunk_size
ExceedsMaxOrReaches(c, current_text, added_len) ==
    Len(current_text) + added_len >= c.max_chunk_size

\* current_text.len() + added_len > self.max_chunk_size
ExceedsMax(c, current_text, added_len) ==
    Len(current_text) + added_len > c.max_chunk_size

RECURSIVE MergeLoop(_, _, _, _, _)
\* the merge loop over atomic_chunks[i..] (i 0-based) from the state m
MergeLoop(c, text, atoms, i, m) ==
    IF i >= Len(atoms)
    THEN IF m.current_text # <<>>
         THEN [m EXCEPT !.slabs = Append(@, Slab(m.current_text, m.current_start,
                                                 m.current_end, Len(m.slabs)))]
         ELSE m
    ELSE
        LET chunk == atoms[i + 1]
            gap == IF chunk.start > m.current_end
                   THEN Slice(text, m.current_end, chunk.start) ELSE <<>>
            added_len == Len(gap) + Len(chunk.text)
            flushed ==
                IF m.current_text # <<>>
                   /\ ExceedsMax(c, m.current_text, added_len)
                THEN Seed(c, text, atoms, i,
                        [m EXCEPT !.slabs = Append(m.slabs,
                                      Slab(m.current_text, m.current_start,
                                           m.current_end, Len(m.slabs))),
                                  !.current_text = <<>>])
                ELSE m
            placed ==
                IF flushed.current_text = <<>>
                THEN [flushed EXCEPT !.current_start = chunk.start]
                ELSE [flushed EXCEPT !.current_text = @ \o gap]
        IN  MergeLoop(c, text, atoms, i + 1,
                      [placed EXCEPT !.current_text = @ \o chunk.text,
                                     !.current_end = chunk.end])

Merge(c, text, atomic_chunks) ==
    LET current_start == IF atomic_chunks = <<>> THEN 0
                         ELSE atomic_chunks[1].start
    IN  MergeLoop(c, text, SortByStart(atomic_chunks), 0,
                  [slabs |-> <<>>, seeds |-> <<>>, current_text |-> <<>>,
                   current_start |-> current_start,
                   current_end |-> current_start])

NoTree == [start |-> 0, end |-> 0, children |-> <<>>, failed |-> TRUE]
CodeIdle == [status |-> "none", atoms |-> <<>>, slabs |-> <<>>, seeds |-> <<>>]

\* a parse failure returns no chunks; a panic or a call that never returns
\* in collect_leafs is the outcome of chunk
CodeChunk(c, text, tree) ==
    IF tree = NoTree
    THEN [status |-> "ok", atoms |-> <<>>, slabs |-> <<>>, seeds |-> <<>>]
    ELSE
        LET atomic_chunks == CollectLeafs(c, tree, text)
        IN  IF atomic_chunks.status # "ok"
            THEN [status |-> atomic_chunks.status, atoms |-> <<>>,
                  slabs |-> <<>>, seeds |-> <<>>]
            ELSE LET merged == Merge(c, text, atomic_chunks.units)
                 IN  [status |-> "ok",
                      atoms |-> SortByStart(atomic_chunks.units),
                      slabs |-> merged.slabs,
                      seeds |-> merged.seeds]

CodeTexts == TextsOver({CharA, CharSpace}, MaxCodeLen)

\* one, two or three leaves inside [s, e], in order and disjoint; a leaf may
\* be zero bytes wide, as the parser's MISSING tokens are
LeafRows(s, e) ==
    { <<Node(b[1], b[2], <<>>)>> :
        b \in {x \in (s..e) \X (s..e) : x[1] <= x[2]} }
    \cup
    { <<Node(b[1], b[2], <<>>), Node(b[3], b[4], <<>>)>> :
        b \in {x \in (s..e) \X (s..e) \X (s..e) \X (s..e) :
                    x[1] <= x[2] /\ x[2] <= x[3] /\ x[3] <= x[4]} }
    \cup
    { <<Node(b[1], b[2], <<>>), Node(b[3], b[4], <<>>), Node(b[5], b[6], <<>>)>> :
        b \in {x \in (s..e) \X (s..e) \X (s..e) \X (s..e) \X (s..e) \X (s..e) :
                    x[1] <= x[2] /\ x[2] <= x[3] /\ x[3] <= x[4]
                    /\ x[4] <= x[5] /\ x[5] <= x[6]} }

\* a node is a leaf, or spans two non-empty leaves with an optional gap
Refinements(n) ==
    {n} \cup
    { Node(n.start, n.end,
           <<Node(n.start, p[1], <<>>), Node(p[2], n.end, <<>>)>>) :
        p \in {q \in ((n.start + 1)..(n.end - 1)) \X ((n.start + 1)..(n.end - 1)) :
                    q[1] <= q[2]} }

RefinedRows(row) ==
    IF Len(row) = 1 THEN { <<a>> : a \in Refinements(row[1]) }
    ELSE IF Len(row) = 2
    THEN { <<a, b>> : a \in Refinements(row[1]), b \in Refinements(row[2]) }
    ELSE { <<a, b, d>> : a \in Refinements(row[1]), b \in Refinements(row[2]),
                         d \in Refinements(row[3]) }

\* the syntax trees of a text: the root spans the text, children lie inside
\* their parent, in order and without overlap
Trees(text) ==
    {Node(0, Len(text), <<>>)}
    \cup { Node(0, Len(text), kids) :
            kids \in UNION {RefinedRows(row) : row \in LeafRows(0, Len(text))} }

CodeNewAct ==
    /\ \E max_chunk_size \in 0..MaxChunkSize, chunk_overlap \in 0..MaxChunkOverlap :
        code' = CodeNew(max_chunk_size, chunk_overlap)
    /\ code_text' = <<>>
    /\ code_tree' = NoTree
    /\ code_out' = CodeIdle
    /\ UNCHANGED not_code

CodeChunkAct ==
    /\ code.state = "ok"
    /\ code_out.status = "none"
    /\ \E text \in CodeTexts :
        \E tree \in Trees(text) \cup {NoTree} :
            /\ code_text' = text
            /\ code_tree' = tree
            /\ code_out' = CodeChunk(code, text, tree)
    /\ UNCHANGED <<code, not_code>>

CodeDropAct ==
    /\ code_out.status = "ok"
    /\ code_text' = <<>>
    /\ code_tree' = NoTree
    /\ code_out' = CodeIdle
    /\ UNCHANGED <<code, not_code>>

(***************************************************************************)
(* LateChunkingPooler.  An f32 is held as an integer number of 1/Scale;    *)
(* the values used (sums and means of -1.0, 0.0 and 1.0, and their         *)
(* normalisations) are coarser here than in f32, never finer.              *)
(***************************************************************************)
LateChunkingPoolerNew(dim) == [state |-> "ok", dim |-> dim]

F32(n) == n * Scale

\* a / b for two f32 values, rounded toward zero
F32Div(a, b) ==
    IF a >= 0 THEN (a * Scale) \div b ELSE 0 - (((0 - a) * Scale) \div b)

RECURSIVE SqrtFrom(_, _)
\* Newton's iteration downward from x to the integer square root of n
SqrtFrom(n, x) ==
    LET y == (x + (n \div x)) \div 2
    IN  IF y >= x THEN x ELSE SqrtFrom(n, y)

RECURSIVE SumSquares(_)
SumSquares(v) ==
    IF v = <<>> THEN 0 ELSE Head(v) * Head(v) + SumSquares(Tail(v))

\* result.iter().map(|x| x * x).sum::<f32>().sqrt()
L2Norm(v) ==
    LET sq == SumSquares(v) IN IF sq = 0 THEN 0 ELSE SqrtFrom(sq, sq)

\* the threshold 1e-9 of the normalisation, which is below 1/Scale
NormEpsilon == 0

ZeroVector(dim) == [i \in 1..dim |-> 0]

Pooled(vec) == [panic |-> FALSE, vec |-> vec]
PoolPanic == [panic |-> TRUE, vec |-> <<>>]

RECURSIVE SumInto(_, _, _)
\* for emb in embeddings { for (i, &v) in emb.iter().enumerate() { result[i] += v } }
\* from embeddings[k..]; result[i] panics when emb is longer than result
SumInto(result, embeddings, k) ==
    IF k > Len(embeddings) THEN Pooled(result)
    ELSE IF Len(embeddings[k]) > Len(result) THEN PoolPanic
    ELSE SumInto([i \in 1..Len(result) |->
                    IF i <= Len(embeddings[k]) THEN result[i] + embeddings[k][i]
                    ELSE result[i]],
                 embeddings, k + 1)

\* if norm > 1e-9 { for v in &mut result { *v /= norm } }
L2Normalize(v) ==
    LET norm == L2Norm(v)
    IN  IF norm > NormEpsilon THEN [i \in 1..Len(v) |-> F32Div(v[i], norm)] ELSE v

MeanPool(self, embeddings) ==
    IF embeddings = <<>> THEN Pooled(ZeroVector(self.dim))
    ELSE
        LET dim == Len(embeddings[1])
            count == F32(Len(embeddings))
            summed == SumInto(ZeroVector(dim), embeddings, 1)
        IN  IF summed.panic THEN PoolPanic
            ELSE Pooled(L2Normalize([i \in 1..dim |-> F32Div(summed.vec[i], count)]))

\* the same computation over borrowed slices
MeanPoolRefs(self, embeddings) == MeanPool(self, embeddings)

\* (offset as f64 / doc_len as f64 * n_tokens as f64) as usize; for offsets
\* and lengths this small the f64 product is the exact quotient or rounds to it
TokenIndex(offset, doc_len, n_tokens) == (offset * n_tokens) \div doc_len

PoolIdle == [status |-> "none", vectors |-> <<>>]
NoPoolCall == [mode |-> "none", token_embeddings |-> <<>>, token_offsets |-> <<>>,
               chunks |-> <<>>, doc_len |-> 0]

\* .collect() of the per-chunk vectors: the first panic ends the call
Collect(pooled) ==
    IF \E k \in 1..Len(pooled) : pooled[k].panic
    THEN [status |-> "panic", vectors |-> <<>>]
    ELSE [status |-> "ok", vectors |-> [k \in 1..Len(pooled) |-> pooled[k].vec]]

\* a degenerate result that forgets the requested chunks
DegenerateResultEmpty(self, chunks) ==
    [status |-> "ok", vectors |-> <<>>]

\* vec![vec![0.0; self.dim]; chunks.len()]
DegenerateResult(self, chunks) ==
    [status |-> "ok", vectors |-> [k \in 1..Len(chunks) |-> ZeroVector(self.dim)]]

PoolChunk(self, token_embeddings, chunk, doc_len) ==
    LET n_tokens == Len(token_embeddings)
        token_start == TokenIndex(chunk.start, doc_len, n_tokens)
        token_end == Min(TokenIndex(chunk.end, doc_len, n_tokens), n_tokens)
    IN  IF token_end <= token_start
        THEN MeanPool(self, token_embeddings)
        ELSE MeanPool(self, SubSeq(token_embeddings, token_start + 1, token_end))

Pool(self, token_embeddings, chunks, doc_len) ==
    IF token_embeddings = <<>> \/ chunks = <<>> \/ doc_len = 0
    THEN DegenerateResult(self, chunks)
    ELSE Collect([k \in 1..Len(chunks) |->
                    PoolChunk(self, token_embeddings, chunks[k], doc_len)])

RECURSIVE OverlappingTokens(_, _, _)
\* the indices (from 0) of token_offsets[i..] that overlap the chunk
OverlappingTokens(token_offsets, chunk, i) ==
    IF i >= Len(token_offsets) THEN <<>>
    ELSE
        LET rest == OverlappingTokens(token_offsets, chunk, i + 1)
            off == token_offsets[i + 1]
        IN  IF off[1] < chunk.end /\ off[2] > chunk.start
            THEN <<i>> \o rest ELSE rest

RECURSIVE Selected(_, _, _)
\* filter_map(|&i| token_embeddings.get(i)) over token_indices[k..]
Selected(token_embeddings, token_indices, k) ==
    IF k > Len(token_indices) THEN <<>>
    ELSE
        LET rest == Selected(token_embeddings, token_indices, k + 1)
            i == token_indices[k]
        IN  IF i < Len(token_embeddings)
            THEN <<token_embeddings[i + 1]>> \o rest ELSE rest

PoolChunkWithOffsets(self, token_embeddings, token_offsets, chunk) ==
    LET token_indices == OverlappingTokens(token_offsets, chunk, 0)
    IN  IF token_indices = <<>>
        THEN MeanPool(self, token_embeddings)
        ELSE MeanPoolRefs(self, Selected(token_embeddings, token_indices, 1))

PoolWithOffsets(self, token_embeddings, token_offsets, chunks) ==
    IF token_embeddings = <<>> \/ chunks = <<>>
    THEN DegenerateResult(self, chunks)
    ELSE Collect([k \in 1..Len(chunks) |->
                    PoolChunkWithOffsets(self, token_embeddings, token_offsets, chunks[k])])

\* the dimensions given to LateChunkingPooler::new: that of the token
\* embeddings below and one that differs from it
PoolerDims == {2, 3}

\* token embeddings: unit vectors, an opposite pair, the zero vector and a
\* vector of another dimension
TokenVectors ==
    { <<F32(1), F32(0)>>, <<F32(0), F32(1)>>, <<F32(0 - 1), F32(0)>>,
      <<F32(0), F32(0)>>, <<F32(1)>> }

RECURSIVE ListsOver(_, _)
\* the sequences of at most n elements of set
ListsOver(set, n) ==
    IF n = 0 THEN {<<>>}
    ELSE {<<>>} \cup {<<x>> \o l : x \in set, l \in ListsOver(set, n - 1)}

Spans == {p \in (0..MaxDocLen) \X (0..MaxDocLen) : p[1] <= p[2]}

\* one or two chunks of any chunker, or none
PoolChunkLists ==
    {<<>>} \cup {<<Slab(<<>>, p[1], p[2], 0)>> : p \in Spans}
           \cup {<<Slab(<<>>, p[1], p[2], 0), Slab(<<>>, q[1], q[2], 1)>> :
                    p \in Spans, q \in Spans}

\* the offsets a tokenizer reports for n tokens: in order, without overlap
TokenOffsets(n) ==
    {l \in ListsOver(Spans, n) :
        /\ Len(l) = n
        /\ \A k \in 1..(n - 1) : l[k][2] <= l[k + 1][1]}

LateChunkingPoolerNewAct ==
    /\ \E dim \in PoolerDims : pooler' = LateChunkingPoolerNew(dim)
    /\ pool_in' = NoPoolCall
    /\ pool_out' = PoolIdle
    /\ UNCHANGED not_pool

PoolAct ==
    /\ pooler.state = "ok"
    /\ pool_out.status = "none"
    /\ \E token_embeddings \in ListsOver(TokenVectors, MaxTokens),
          chunks \in PoolChunkLists, doc_len \in 0..MaxDocLen :
        /\ pool_in' = [mode |-> "ratio", token_embeddings |-> token_embeddings,
                       token_offsets |-> <<>>, chunks |-> chunks,
                       doc_len |-> doc_len]
        /\ pool_out' = Pool(pooler, token_embeddings, chunks, doc_len)
    /\ UNCHANGED <<pooler, not_pool>>

PoolWithOffsetsAct ==
    /\ pooler.state = "ok"
    /\ pool_out.status = "none"
    /\ \E token_embeddings \in ListsOver(TokenVectors, MaxTokens),
          chunks \in PoolChunkLists :
        \E token_offsets \in TokenOffsets(Len(token_embeddings)) :
            /\ pool_in' = [mode |-> "offsets", token_embeddings |-> token_embeddings,
                           token_offsets |-> token_offsets, chunks |-> chunks,
                           doc_len |-> 0]
            /\ pool_out' = PoolWithOffsets(pooler, token_embeddings, token_offsets, chunks)
    /\ UNCHANGED <<pooler, not_pool>>

PoolDropAct ==
    /\ pool_out.status = "ok"
    /\ pool_in' = NoPoolCall
    /\ pool_out' = PoolIdle
    /\ UNCHANGED <<pooler, not_pool>>

(***************************************************************************)
(* SemanticChunker.  The embedding model is an external capability: what   *)
(* it answers (an error, or one embedding per sentence) is an input of     *)
(* chunk.                                                                  *)
(***************************************************************************)
\* SemanticChunker::new: Err(Error::Embedding) when the model does not load
SemanticNew(threshold, loaded) ==
    IF loaded
    THEN [state |-> "ok", threshold |-> threshold, min_chunk_sentences |-> 2]
    ELSE [state |-> "error"]

WithMinSentences(c, min) == [c EXCEPT !.min_chunk_sentences = min]

RECURSIVE Dot(_, _)
\* a.iter().zip(b.iter()).map(|(x, y)| x * y).sum(), in units of 1/Scale^2
Dot(a, b) ==
    IF a = <<>> \/ b = <<>> THEN 0
    ELSE Head(a) * Head(b) + Dot(Tail(a), Tail(b))

CosineSimilarity(a, b) ==
    LET dot == Dot(a, b) \div Scale
        norm_a == L2Norm(a)
        norm_b == L2Norm(b)
    IN  IF norm_a > 0 /\ norm_b > 0
        THEN F32Div(dot, (norm_a * norm_b) \div Scale)
        ELSE 0

RECURSIVE ExtractLoop(_, _, _)
\* the for loop of extract_sentences over bounds[k..]; each bound is
\* <<offset, sentence>> with offset the running sum of the lengths before it
ExtractLoop(text, bounds, k) ==
    IF k > Len(bounds) THEN <<>>
    ELSE
        LET offset == bounds[k][1]
            trimmed == Trim(bounds[k][2])
            pos == FindFrom(Slice(text, offset, Len(text)), trimmed, 0)
            rest == ExtractLoop(text, bounds, k + 1)
        IN  IF trimmed # <<>> /\ pos >= 0
            THEN <<<<offset + pos, trimmed>>>> \o rest
            ELSE rest

ExtractSentences(text) == ExtractLoop(text, SplitSentenceBounds(text), 1)

RECURSIVE FindSplitLoop(_, _, _, _)
\* the for loop of find_split_points from sentence index i
FindSplitLoop(c, embeddings, i, split_points) ==
    IF i >= Len(embeddings) THEN split_points
    ELSE
        LET sim == CosineSimilarity(embeddings[i], embeddings[i + 1])
            last_split == IF split_points = <<>> THEN 0
                          ELSE split_points[Len(split_points)]
        IN  FindSplitLoop(c, embeddings, i + 1,
                IF sim < c.threshold /\ i - last_split >= c.min_chunk_sentences
                THEN Append(split_points, i) ELSE split_points)

FindSplitPoints(c, embeddings) ==
    IF Len(embeddings) <= 1 THEN <<>> ELSE FindSplitLoop(c, embeddings, 1, <<>>)

RECURSIVE JoinWithSpace(_)
\* .collect::<Vec<_>>().join(" ")
JoinWithSpace(chunk_sentences) ==
    IF Len(chunk_sentences) = 1 THEN chunk_sentences[1][2]
    ELSE chunk_sentences[1][2] \o CharSpace \o JoinWithSpace(Tail(chunk_sentences))

\* the slab of a non-empty run of sentences
SentencesSlab(chunk_sentences, index) ==
    LET last == chunk_sentences[Len(chunk_sentences)]
    IN  Slab(JoinWithSpace(chunk_sentences), chunk_sentences[1][1],
             last[1] + Len(last[2]), index)

Chunks(slabs, sizes) == [slabs |-> slabs, sizes |-> sizes]

RECURSIVE SemanticLoop(_, _, _, _, _)
\* the loop over split_points[chunk_idx..] and the final chunk; sizes keeps
\* the number of sentences of every slab pushed
SemanticLoop(sentences, split_points, chunk_idx, chunk_start_idx, out) ==
    IF chunk_idx >= Len(split_points)
    THEN IF chunk_start_idx < Len(sentences)
         THEN LET chunk_sentences ==
                      SubSeq(sentences, chunk_start_idx + 1, Len(sentences))
              IN  Chunks(Append(out.slabs,
                                SentencesSlab(chunk_sentences, Len(out.slabs))),
                         Append(out.sizes, Len(chunk_sentences)))
         ELSE out
    ELSE
        LET split_idx == split_points[chunk_idx + 1]
            chunk_sentences == SubSeq(sentences, chunk_start_idx + 1, split_idx)
        IN  SemanticLoop(sentences, split_points, chunk_idx + 1, split_idx,
                IF chunk_sentences # <<>>
                THEN Chunks(Append(out.slabs,
                                   SentencesSlab(chunk_sentences, chunk_idx)),
                            Append(out.sizes, Len(chunk_sentences)))
                ELSE out)

NoEmbed == [kind |-> "none", embeddings |-> <<>>]
EmbedErr == [kind |-> "Err", embeddings |-> <<>>]
EmbedOk(embeddings) == [kind |-> "Ok", embeddings |-> embeddings]

SemIdle == [status |-> "none", sentences |-> <<>>, split_points |-> <<>>,
            sizes |-> <<>>, slabs |-> <<>>]

SemResult(sentences, split_points, out) ==
    [status |-> "ok", sentences |-> sentences, split_points |-> split_points,
     sizes |-> out.sizes, slabs |-> out.slabs]

\* a fallback whose span is that of the trimmed text
FallbackTrimmedSpan(text) ==
    <<Slab(Trim(text), Len(text) - Len(TrimStart(text)), Len(TrimEnd(text)), 0)>>

\* vec![Slab::new(text.trim(), 0, text.len(), 0)]
Fallback(text) == <<Slab(Trim(text), 0, Len(text), 0)>>

\* chunk(text) when the embedding call, if it is reached, answers embed
SemanticChunk(c, text, embed) ==
    IF text = <<>> THEN SemResult(<<>>, <<>>, Chunks(<<>>, <<>>))
    ELSE
        LET sentences == ExtractSentences(text)
        IN  IF sentences = <<>> THEN SemResult(<<>>, <<>>, Chunks(<<>>, <<>>))
            ELSE IF embed.kind = "Err"
            THEN SemResult(sentences, <<>>,
                           Chunks(Fallback(text), <<Len(sentences)>>))
            ELSE
                LET split_points == FindSplitPoints(c, embed.embeddings)
                IN  SemResult(sentences, split_points,
                              SemanticLoop(sentences, split_points, 0, 0,
                                           Chunks(<<>>, <<>>)))

SemTexts == TextsOver({CharA, CharBang, CharSpace, CharNewline}, MaxLen)

\* thresholds 0.0 and 0.5
Thresholds == {F32(0), F32(1) \div 2}

\* two orthogonal sentence embeddings: similarity 1.0 or 0.0
SentenceEmbeddings == {<<F32(1), F32(0)>>, <<F32(0), F32(1)>>}

\* what the model can answer for n sentences
EmbedOutcomes(n) ==
    {EmbedErr} \cup {EmbedOk(e) : e \in [1..n -> SentenceEmbeddings]}

SemanticNewAct ==
    /\ \E threshold \in Thresholds, loaded \in BOOLEAN :
        semantic' = SemanticNew(threshold, loaded)
    /\ sem_text' = <<>>
    /\ sem_embed' = NoEmbed
    /\ sem_out' = SemIdle
    /\ UNCHANGED not_sem

SemanticWithMinSentencesAct ==
    /\ semantic.state = "ok"
    /\ \E min \in 0..MaxMinSentences : semantic' = WithMinSentences(semantic, min)
    /\ sem_text' = <<>>
    /\ sem_embed' = NoEmbed
    /\ sem_out' = SemIdle
    /\ UNCHANGED not_sem

\* the model is asked only when the text has a sentence to embed
SemanticChunkAct ==
    /\ semantic.state = "ok"
    /\ sem_out.status = "none"
    /\ \E text \in SemTexts :
        \E embed \in IF ExtractSentences(text) = <<>> THEN {NoEmbed}
                     ELSE EmbedOutcomes(Len(ExtractSentences(text))) :
            /\ sem_text' = text
            /\ sem_embed' = embed
            /\ sem_out' = SemanticChunk(semantic, text, embed)
    /\ UNCHANGED <<semantic, not_sem>>

SemanticDropAct ==
    /\ sem_out.status = "ok"
    /\ sem_text' = <<>>
    /\ sem_embed' = NoEmbed
    /\ sem_out' = SemIdle
    /\ UNCHANGED <<semantic, not_sem>>

(***************************************************************************)
(* ModelChunker.  The token classifier is an external capability: the      *)
(* cut-points it predicts are an input of chunk.                           *)
(***************************************************************************)
ModelChunkerNew == [state |-> "ok"]

ModelIdle == [status |-> "none", slabs |-> <<>>]
ModelPanic == [status |-> "panic", slabs |-> <<>>]

RECURSIVE ModelLoop(_, _, _, _, _)
\* the for loop over split_points[i..] and the final chunk, from the state
\* (start, slabs); &text[start..end] panics when end is inside a character
ModelLoop(text, split_points, i, start, slabs) ==
    IF i >= Len(split_points)
    THEN [status |-> "ok",
          slabs |-> IF start < Len(text)
                    THEN Append(slabs, Slab(Slice(text, start, Len(text)),
                                            start, Len(text), Len(slabs)))
                    ELSE slabs]
    ELSE
        LET end == split_points[i + 1]
        IN  IF end > start /\ end <= Len(text)
            THEN IF IsCharBoundary(text, end)
                 THEN ModelLoop(text, split_points, i + 1, end,
                                Append(slabs, Slab(Slice(text, start, end), start, end, i)))
                 ELSE ModelPanic
            ELSE ModelLoop(text, split_points, i + 1, start, slabs)

ModelChunk(text, split_points) ==
    IF text = <<>> THEN [status |-> "ok", slabs |-> <<>>]
    ELSE ModelLoop(text, split_points, 0, 0, <<>>)

ModelTexts == TextsOver({CharA, CharE9}, MaxLen)

\* what a classifier can predict: any offsets, in any order, up to one
\* beyond the longest text
SplitPredictions == ListsOver(0..(MaxLen + 1), MaxCuts)

ModelChunkerNewAct ==
    /\ model_chunker' = ModelChunkerNew
    /\ model_text' = <<>>
    /\ model_splits' = <<>>
    /\ model_out' = ModelIdle
    /\ UNCHANGED not_model

\* predict_splits is not called for an empty text
ModelChunkAct ==
    /\ model_chunker.state = "ok"
    /\ model_out.status = "none"
    /\ \E text \in ModelTexts :
        \E split_points \in IF text = <<>> THEN {<<>>} ELSE SplitPredictions :
            /\ model_text' = text
            /\ model_splits' = split_points
            /\ model_out' = ModelChunk(text, split_points)
    /\ UNCHANGED <<model_chunker, not_model>>

ModelDropAct ==
    /\ model_out.status = "ok"
    /\ model_text' = <<>>
    /\ model_splits' = <<>>
    /\ model_out' = ModelIdle
    /\ UNCHANGED <<model_chunker, not_model>>

(***************************************************************************)
(* Concurrent chunk calls.  chunk takes &self, so several callers may run  *)
(* it on one FixedChunker at once; start, index and slabs are locals of    *)
(* each call, and a step is one iteration of the while loop.               *)
(***************************************************************************)
Callers == {"a", "b"}

CallIdle == [pc |-> "idle", config |-> NoChunker, text |-> <<>>,
             start |-> 0, index |-> 0, slabs |-> <<>>]

\* the call at the head of the while loop, or returned at once for ""
CallEntered(c, text) ==
    [pc |-> IF text = <<>> THEN "done" ELSE "loop", config |-> c, text |-> text,
     start |-> 0, index |-> 0, slabs |-> <<>>]

\* one iteration of the while loop of FixedChunker::chunk on the call's locals
FixedIterate(c, call) ==
    IF ~(call.start < Len(call.text)) THEN [call EXCEPT !.pc = "done"]
    ELSE
        LET end == FloorCharBoundary(call.text,
                                     Min(call.start + c.size, Len(call.text)))
            pushed == IF end > call.start
                      THEN [call EXCEPT
                              !.slabs = Append(@, Slab(Slice(call.text, call.start, end),
                                                       call.start, end, call.index)),
                              !.index = @ + 1]
                      ELSE call
            next_start == call.start + FixedStep(c)
        IN  IF next_start >= Len(call.text) \/ next_start <= call.start
            THEN [pushed EXCEPT !.pc = "done"]
            ELSE [pushed EXCEPT !.start = CeilCharBoundary(call.text, next_start)]

\* a chunker that keeps the loop cursor in the instance: every running call
\* sees the cursor the last step wrote
StoreLocalsSharedCursor(cs, p, next) ==
    [q \in Callers |->
        IF q = p THEN next
        ELSE IF cs[q].pc = "loop" THEN [cs[q] EXCEPT !.start = next.start]
        ELSE cs[q]]

\* the step of caller p writes the locals of p's call and nothing else
StoreLocals(cs, p, next) == [cs EXCEPT ![p] = next]

SharedTexts == TextsOver({CharA, CharE9}, MaxLen)

\* FixedChunker::new while no call borrows the previous chunker
SharedNewAct ==
    /\ \A p \in Callers : calls[p].pc = "idle"
    /\ \E size \in 0..MaxSize, overlap \in 0..MaxSize :
        /\ fixed' = FixedNew(size, overlap)
        /\ fixed_args' = <<size, overlap>>
    /\ UNCHANGED <<fixed_text, fixed_slabs, calls, not_fixed_calls>>

CallBeginAct ==
    /\ fixed.state = "ok"
    /\ \E p \in Callers, text \in SharedTexts :
        /\ calls[p].pc = "idle"
        /\ calls' = StoreLocals(calls, p, CallEntered(fixed, text))
    /\ UNCHANGED <<fixed_vars, not_fixed_calls>>

CallIterateAct ==
    /\ \E p \in Callers :
        /\ calls[p].pc = "loop"
        /\ calls' = StoreLocals(calls, p, FixedIterate(fixed, calls[p]))
    /\ UNCHANGED <<fixed_vars, not_fixed_calls>>

\* the caller takes the Vec<Slab> and releases it
CallReturnAct ==
    /\ \E p \in Callers :
        /\ calls[p].pc = "done"
        /\ calls' = StoreLocals(calls, p, CallIdle)
    /\ UNCHANGED <<fixed_vars, not_fixed_calls>>

\* the caller releases the result of the last call
FixedDropAct ==
    /\ fixed_text # <<>>
    /\ fixed_text' = <<>>
    /\ fixed_slabs' = <<>>
    /\ UNCHANGED <<fixed, fixed_args, not_fixed>>

RecursiveDropAct ==
    /\ rec_out.status = "ok"
    /\ rec_text' = <<>>
    /\ rec_out' = RecIdle
    /\ UNCHANGED <<recursive, not_rec>>

SentenceDropAct ==
    /\ sent_text # <<>>
    /\ sent_text' = <<>>
    /\ sent_slabs' = <<>>
    /\ UNCHANGED <<sentence, not_sent>>

Init ==
    /\ fixed = NoChunker
    /\ fixed_args = NoArgs
    /\ fixed_text = <<>>
    /\ fixed_slabs = <<>>
    /\ recursive = NoChunker
    /\ rec_text = <<>>
    /\ rec_out = RecIdle
    /\ sentence = NoChunker
    /\ sent_text = <<>>
    /\ sent_slabs = <<>>
    /\ capacity = NoCapacity
    /\ cap_result = NoResult
    /\ cap_call = NoCall
    /\ code = NoChunker
    /\ code_text = <<>>
    /\ code_tree = NoTree
    /\ code_out = CodeIdle
    /\ pooler = NoChunker
    /\ pool_in = NoPoolCall
    /\ pool_out = PoolIdle
    /\ semantic = NoChunker
    /\ sem_text = <<>>
    /\ sem_embed = NoEmbed
    /\ sem_out = SemIdle
    /\ model_chunker = NoChunker
    /\ model_text = <<>>
    /\ model_splits = <<>>
    /\ model_out = ModelIdle
    /\ calls = [p \in Callers |-> CallIdle]

NextFixed == FixedNewAct \/ FixedChunkAct \/ FixedDropAct

SpecFixed == Init /\ [][NextFixed]_vars

NextRecursive ==
    \/ RecursiveNewAct \/ RecursiveWithOverlapAct
    \/ RecursiveChunkAct \/ RecursiveDropAct

SpecRecursive == Init /\ [][NextRecursive]_vars

NextSentence == SentenceNewAct \/ SentenceChunkAct \/ SentenceDropAct

SpecSentence == Init /\ [][NextSentence]_vars

NextCapacity ==
    \/ CapacityNewAct \/ CapacityDefaultAct \/ CapacityFromUsizeAct
    \/ CapacityFromRangeAct \/ CapacityFromRangeInclusiveAct
    \/ CapacityWithMaxAct \/ CapacityUnwrapAct

SpecCapacity == Init /\ [][NextCapacity]_vars

NextCode == CodeNewAct \/ CodeChunkAct \/ CodeDropAct

SpecCode == Init /\ [][NextCode]_vars

NextPooler ==
    \/ LateChunkingPoolerNewAct \/ PoolAct \/ PoolWithOffsetsAct \/ PoolDropAct

SpecPooler == Init /\ [][NextPooler]_vars

NextSemantic ==
    \/ SemanticNewAct \/ SemanticWithMinSentencesAct
    \/ SemanticChunkAct \/ SemanticDropAct

SpecSemantic == Init /\ [][NextSemantic]_vars

NextModel == ModelChunkerNewAct \/ ModelChunkAct \/ ModelDropAct

SpecModel == Init /\ [][NextModel]_vars

NextShared == SharedNewAct \/ CallBeginAct \/ CallIterateAct \/ CallReturnAct

SpecShared == Init /\ [][NextShared]_vars

(***************************************************************************)
(* Properties of FixedChunker                                              *)
(***************************************************************************)
RECURSIVE SumSlabLen(_)
SumSlabLen(slabs) ==
    IF slabs = <<>> THEN 0 ELSE Len(Head(slabs).text) + SumSlabLen(Tail(slabs))

HasMultiByte(text) == ~IsAscii(text)

\* the chunks cover [0, len): first start 0, last end len, no hole between
\* consecutive chunks
Covers(slabs, text) ==
    /\ slabs # <<>>
    /\ slabs[1].start = 0
    /\ slabs[Len(slabs)].end = Len(text)
    /\ \A i \in 1..(Len(slabs) - 1) : slabs[i + 1].start <= slabs[i].end

\* C1: for every non-empty text, multi-byte characters included, and every
\* valid (size, overlap), the chunks of FixedChunker::chunk cover [0, len).
C1_FixedCoversDocument ==
    (fixed.state = "ok" /\ fixed_text # <<>>) => Covers(fixed_slabs, fixed_text)

\* C8: every chunk of FixedChunker::chunk has 0 <= start < end <= len, both
\* offsets on character boundaries, and its text is text[start..end].
C8_FixedSpansOnCharBoundaries ==
    \A i \in 1..Len(fixed_slabs) :
        LET s == fixed_slabs[i] IN
        /\ 0 <= s.start /\ s.start < s.end /\ s.end <= Len(fixed_text)
        /\ IsCharBoundary(fixed_text, s.start)
        /\ IsCharBoundary(fixed_text, s.end)
        /\ s.text = Slice(fixed_text, s.start, s.end)

\* a call on multi-byte text in which a window end start + size fell inside
\* a character and was snapped backward
C8_Witness ==
    /\ fixed.state = "ok"
    /\ HasMultiByte(fixed_text)
    /\ Len(fixed_slabs) >= 2
    /\ \E i \in 1..Len(fixed_slabs) :
        LET s == fixed_slabs[i] IN
        /\ s.start + fixed.size < Len(fixed_text)
        /\ ~IsCharBoundary(fixed_text, s.start + fixed.size)
        /\ s.end < s.start + fixed.size

\* C9: with overlap = 0 on ASCII text, consecutive chunks are adjacent and
\* the chunk lengths add up to the document length.
C9_FixedNoOverlapContiguous ==
    (fixed.state = "ok" /\ fixed.overlap = 0 /\ fixed_text # <<>> /\ IsAscii(fixed_text)) =>
        /\ \A i \in 1..(Len(fixed_slabs) - 1) :
                fixed_slabs[i].end = fixed_slabs[i + 1].start
        /\ SumSlabLen(fixed_slabs) = Len(fixed_text)

C9_Witness ==
    /\ fixed.state = "ok" /\ fixed.overlap = 0
    /\ fixed_text # <<>> /\ IsAscii(fixed_text)
    /\ Len(fixed_slabs) >= 3
    /\ Len(fixed_slabs[Len(fixed_slabs)].text) < fixed.size

\* C19: FixedChunker::new(size, overlap) fails exactly when size = 0 or
\* overlap >= size; for every other pair it yields a chunker with the given
\* size and overlap, unclamped, whose step size - overlap is at least 1.
C19_FixedNewRejectsExactly ==
    fixed.state # "none" =>
        LET size == fixed_args[1]
            overlap == fixed_args[2]
        IN  /\ (fixed.state = "panicked") <=> (size = 0 \/ overlap >= size)
            /\ fixed.state = "ok" =>
                    /\ fixed.size = size
                    /\ fixed.overlap = overlap
                    /\ FixedStep(fixed) >= 1

\* a call rejected for an overlap equal to a non-zero size
C19_Witness ==
    /\ fixed.state = "panicked"
    /\ fixed_args # NoArgs
    /\ fixed_args[1] > 0
    /\ fixed_args[2] = fixed_args[1]

(***************************************************************************)
(* Properties of RecursiveChunker                                          *)
(***************************************************************************)
RECURSIVE Concat(_)
Concat(frags) == IF frags = <<>> THEN <<>> ELSE Head(frags) \o Concat(Tail(frags))

RecReturned == recursive.state = "ok" /\ rec_out.status = "ok" /\ rec_text # <<>>

\* C2: with overlap = 0 the raw fragments of split_recursive concatenate to
\* the input text and the chunks tile the document: chunk 0 starts at 0,
\* every chunk starts where the previous one ends, the last ends at len, and
\* each start is the sum of the lengths of the fragments before it.
C2_RecursiveFragmentsTile ==
    (RecReturned /\ recursive.overlap = 0) =>
        /\ Concat(rec_out.frags) = rec_text
        /\ Len(rec_out.slabs) = Len(rec_out.frags)
        /\ rec_out.slabs # <<>>
        /\ rec_out.slabs[1].start = 0
        /\ rec_out.slabs[Len(rec_out.slabs)].end = Len(rec_text)
        /\ \A i \in 1..(Len(rec_out.slabs) - 1) :
                rec_out.slabs[i].end = rec_out.slabs[i + 1].start
        /\ \A i \in 1..Len(rec_out.slabs) :
                /\ rec_out.slabs[i].start = Len(Concat(SubSeq(rec_out.frags, 1, i - 1)))
                /\ rec_out.slabs[i].end = rec_out.slabs[i].start + Len(rec_out.frags[i])

\* a call without overlap that returned a fragment ending in a separator
\* and a fragment cut in the middle of a word by the force split
C2_Witness ==
    /\ RecReturned /\ recursive.overlap = 0
    /\ Len(rec_out.frags) >= 3
    /\ \E i \in 1..Len(rec_out.frags) :
        rec_out.frags[i][Len(rec_out.frags[i])] = 32
    /\ \E i \in 1..(Len(rec_out.frags) - 1) :
        /\ rec_out.frags[i][Len(rec_out.frags[i])] # 32
        /\ rec_out.frags[i + 1][1] # 32

\* C6: with overlap = 0 every chunk is at most max_size bytes long.
C6_RecursiveChunksWithinMaxSize ==
    (RecReturned /\ recursive.overlap = 0) =>
        \A i \in 1..Len(rec_out.slabs) :
            /\ Len(rec_out.slabs[i].text) <= recursive.max_size
            /\ rec_out.slabs[i].end - rec_out.slabs[i].start <= recursive.max_size

\* a call without overlap on a text longer than max_size whose chunks came
\* from more than one separator level
C6_Witness ==
    /\ RecReturned /\ recursive.overlap = 0
    /\ Len(recursive.separators) >= 2
    /\ Len(rec_text) > 2 * recursive.max_size
    /\ Len(rec_out.slabs) >= 3
    /\ \E i \in 1..Len(rec_out.slabs) :
        Len(rec_out.slabs[i].text) = recursive.max_size

\* C7: with overlap > 0 the chunk, after its start was pulled backward and
\* snapped to a character boundary, is still at most max_size bytes long.
C7_RecursiveOverlapWithinMaxSize ==
    (RecReturned /\ recursive.overlap > 0) =>
        \A i \in 1..Len(rec_out.slabs) :
            rec_out.slabs[i].end - rec_out.slabs[i].start <= recursive.max_size

\* C11: for every text, every max_size > 0 and every non-empty separator
\* list, RecursiveChunker::chunk returns a chunk list: no call is left that
\* panicked or whose force_split loop makes no progress.
C11_RecursiveChunkReturns ==
    (recursive.state = "ok" /\ rec_out.status # "none") => rec_out.status = "ok"

(***************************************************************************)
(* Properties of SentenceChunker                                           *)
(***************************************************************************)
\* C5: every chunk of SentenceChunker::chunk has start <= end <= len and its
\* text is the source slice text[start..end], whitespace-only sentences
\* between the retained ones included.
C5_SentenceTextMatchesSpan ==
    \A i \in 1..Len(sent_slabs) :
        LET s == sent_slabs[i] IN
        /\ s.start <= s.end /\ s.end <= Len(sent_text)
        /\ s.text = Slice(sent_text, s.start, s.end)

\* the spans of the segmenter that hold a non-whitespace byte
RetainedSpans(text) ==
    SelectSeq(SplitSentenceBounds(text),
              LAMBDA s : \E i \in 1..Len(s[2]) : ~IsWhitespace(s[2][i]))

CeilDiv(a, b) == (a + b - 1) \div b

\* C22: with sentences_per_chunk = N and k spans that are not
\* whitespace-only, chunk emits exactly ceil(k / N) chunks, the j-th built
\* from the retained spans j*N .. min((j+1)*N, k) - 1 in order; k = 0 (empty
\* or all-whitespace input) yields no chunk.
C22_SentenceChunkCount ==
    sentence.state = "ok" =>
        LET spans == RetainedSpans(sent_text)
            k == Len(spans)
            N == sentence.sentences_per_chunk
        IN  /\ Len(sent_slabs) = CeilDiv(k, N)
            /\ \A j \in 0..(Len(sent_slabs) - 1) :
                  LET window == SubSeq(spans, j * N + 1, Min((j + 1) * N, k))
                      first == window[1]
                      last == window[Len(window)]
                  IN  /\ sent_slabs[j + 1].index = j
                      /\ sent_slabs[j + 1].text = Trim(ConcatTexts(window))
                      /\ sent_slabs[j + 1].start
                            = first[1] + Len(first[2]) - Len(TrimStart(first[2]))
                      /\ sent_slabs[j + 1].end
                            = last[1] + Len(TrimEnd(last[2]))

\* three retained sentences and one whitespace-only span, grouped by two
\* into two chunks, the second one partial
C22_Witness ==
    /\ sentence.state = "ok" /\ sentence.sentences_per_chunk = 2
    /\ Len(RetainedSpans(sent_text)) = 3
    /\ Len(SplitSentenceBounds(sent_text)) = 4
    /\ Len(sent_slabs) = 2

(***************************************************************************)
(* Properties of ChunkCapacity                                             *)
(***************************************************************************)
\* C10: every ChunkCapacity obtained from new, with_max, From<usize>,
\* From<Range>, From<RangeInclusive> or Default has desired <= max.
C10_CapacityDesiredAtMostMax ==
    /\ capacity.state = "ok" => capacity.desired <= capacity.max
    /\ cap_result.kind = "Ok" => cap_result.value.desired <= cap_result.value.max

\* C20: with_max(m) returns Err(MaxLessThanDesired { desired, max: m })
\* exactly when m < desired, and otherwise Ok of a capacity whose max is m
\* and whose desired is that of the receiver; in both cases the capacity
\* the caller holds is unchanged.
C20_WithMaxErrorOrNewMax ==
    cap_result.kind # "none" =>
        LET self == cap_call.self
            m == cap_call.max
        IN  /\ (cap_result.kind = "Err") <=> (m < self.desired)
            /\ cap_result.kind = "Err" =>
                    /\ cap_result.error = "MaxLessThanDesired"
                    /\ cap_result.desired = self.desired
                    /\ cap_result.max = m
            /\ cap_result.kind = "Ok" =>
                    /\ cap_result.value.max = m
                    /\ cap_result.value.desired = self.desired
            /\ capacity = self

\* a call with m equal to desired, the boundary, on a capacity whose max was
\* larger: Ok, the caller still holding the old capacity
C20_Witness ==
    /\ cap_result.kind = "Ok"
    /\ cap_call.self.desired < cap_call.self.max
    /\ cap_call.max = cap_call.self.desired
    /\ capacity.max # cap_result.value.max

(***************************************************************************)
(* Properties of CodeChunker                                               *)
(***************************************************************************)
CodeReturned == code.state = "ok" /\ code_out.status = "ok" /\ code_tree # NoTree

\* C3: with chunk_overlap > 0 (stated here for max_chunk_size > 0 only, where
\* it already fails), for consecutive chunks (prev, curr) with
\* curr.start < prev.end the overlap prev.end - curr.start is at most
\* prev.len() and the last bytes of prev.text are the first bytes of curr.text.
C3_CodeOverlapConsistent ==
    (CodeReturned /\ code.chunk_overlap > 0 /\ code.max_chunk_size > 0) =>
        \A k \in 1..(Len(code_out.slabs) - 1) :
            LET prev == code_out.slabs[k]
                curr == code_out.slabs[k + 1]
                overlap_len == prev.end - curr.start
            IN  curr.start < prev.end =>
                    /\ overlap_len <= Len(prev.text)
                    /\ SubSeq(prev.text, Len(prev.text) - overlap_len + 1, Len(prev.text))
                         = SubSeq(curr.text, 1, overlap_len)

\* the chunk is one atomic unit that by itself exceeds max_chunk_size
IsOversizedUnit(slab) ==
    \E a \in 1..Len(code_out.atoms) :
        /\ code_out.atoms[a].start = slab.start
        /\ code_out.atoms[a].end = slab.end
        /\ code_out.atoms[a].text = slab.text
        /\ Len(code_out.atoms[a].text) > code.max_chunk_size

\* C4: for max_chunk_size > 0 and any chunk_overlap, every chunk is at most
\* max_chunk_size bytes long unless it is a single oversized atomic unit.
C4_CodeChunksWithinMaxSize ==
    (CodeReturned /\ code.max_chunk_size > 0) =>
        \A k \in 1..Len(code_out.slabs) :
            \/ Len(code_out.slabs[k].text) <= code.max_chunk_size
            \/ IsOversizedUnit(code_out.slabs[k])

\* C18: for every (max_chunk_size, chunk_overlap) that CodeChunker::new
\* accepts, max_chunk_size = 0 included, chunk does not panic: no
\* configuration error is left to surface in the chunking call.
C18_CodeChunkNeverPanics ==
    (code.state = "ok" /\ code_out.status # "none") => code_out.status # "panic"

(***************************************************************************)
(* Properties of LateChunkingPooler                                        *)
(***************************************************************************)
PoolCalled == pooler.state = "ok" /\ pool_in.mode # "none"

\* no token embedding, no chunk, or doc_len = 0 in ratio mode
PoolDegenerate ==
    \/ pool_in.token_embeddings = <<>>
    \/ pool_in.chunks = <<>>
    \/ pool_in.mode = "ratio" /\ pool_in.doc_len = 0

\* C12: for degenerate inputs pool and pool_with_offsets do not fail and
\* return one vector per requested chunk, each of dimension dim and all
\* zeros; whenever a call returns, it returns as many vectors as chunks.
C12_PoolDegenerateZeroVectors ==
    /\ (PoolCalled /\ PoolDegenerate) =>
            /\ pool_out.status = "ok"
            /\ Len(pool_out.vectors) = Len(pool_in.chunks)
            /\ \A k \in 1..Len(pool_out.vectors) :
                    /\ Len(pool_out.vectors[k]) = pooler.dim
                    /\ \A i \in 1..pooler.dim : pool_out.vectors[k][i] = 0
    /\ (PoolCalled /\ pool_out.status = "ok") =>
            Len(pool_out.vectors) = Len(pool_in.chunks)

\* a ratio-mode call with token embeddings and two chunks but doc_len = 0
C12_Witness ==
    /\ PoolCalled /\ pool_in.mode = "ratio"
    /\ pool_in.token_embeddings # <<>>
    /\ pool_in.doc_len = 0
    /\ Len(pool_in.chunks) = 2
    /\ Len(pool_out.vectors) = 2

\* the L2 norm is within 0.01 of 1.0
NormNearOne(v) ==
    LET d == L2Norm(v) - Scale
    IN  (IF d >= 0 THEN d ELSE 0 - d) * 100 < Scale

\* C13: for non-degenerate inputs every pooled vector that pool or
\* pool_with_offsets returns has L2 norm within 0.01 of 1.0.
C13_PooledVectorsUnitNorm ==
    (PoolCalled /\ ~PoolDegenerate /\ pool_out.status = "ok") =>
        \A k \in 1..Len(pool_out.vectors) : NormNearOne(pool_out.vectors[k])

(***************************************************************************)
(* Properties of SemanticChunker                                           *)
(***************************************************************************)
SemReturned == semantic.state = "ok" /\ sem_out.status = "ok" /\ sem_text # <<>>

\* the split point recorded before split_points[k], or 0
PreviousSplit(k) == IF k = 1 THEN 0 ELSE sem_out.split_points[k - 1]

\* C14: with min_chunk_sentences = m, a split point is recorded at sentence
\* index i only when similarity(i-1, i) < threshold and at least m sentences
\* have elapsed since the last split, and for a document with at least m
\* sentences no emitted chunk contains fewer than m sentences.
C14_SemanticMinSentencesPerChunk ==
    (SemReturned /\ sem_embed.kind = "Ok") =>
        /\ \A k \in 1..Len(sem_out.split_points) :
              LET i == sem_out.split_points[k] IN
              /\ CosineSimilarity(sem_embed.embeddings[i], sem_embed.embeddings[i + 1])
                    < semantic.threshold
              /\ i - PreviousSplit(k) >= semantic.min_chunk_sentences
        /\ Len(sem_out.sentences) >= semantic.min_chunk_sentences =>
              \A k \in 1..Len(sem_out.sizes) :
                  sem_out.sizes[k] >= semantic.min_chunk_sentences

\* C15: when the embedding call fails on a non-empty document with at least
\* one non-whitespace sentence, chunk returns exactly one chunk, with index 0
\* and span [0, len); an empty document yields no chunk.
C15_SemanticEmbedFailureFallback ==
    /\ (SemReturned /\ sem_embed.kind = "Err") =>
            /\ Len(sem_out.slabs) = 1
            /\ sem_out.slabs[1].index = 0
            /\ sem_out.slabs[1].start = 0
            /\ sem_out.slabs[1].end = Len(sem_text)
    /\ (semantic.state = "ok" /\ sem_out.status = "ok" /\ sem_text = <<>>) =>
            sem_out.slabs = <<>>

\* a failed embedding call on a document of several sentences that begins
\* and ends with whitespace
C15_Witness ==
    /\ SemReturned /\ sem_embed.kind = "Err"
    /\ Len(sem_out.sentences) >= 2
    /\ IsWhitespace(sem_text[1]) /\ IsWhitespace(sem_text[Len(sem_text)])
    /\ Len(sem_out.slabs) = 1

(***************************************************************************)
(* Properties of ModelChunker                                              *)
(***************************************************************************)
ModelCalled ==
    model_chunker.state = "ok" /\ model_out.status # "none" /\ model_text # <<>>

\* C16: for every non-empty text and every list of cut-points, in any order,
\* with duplicates, zeros or values beyond len, ModelChunker::chunk returns
\* non-empty chunks that tile the document: the first starts at 0, each
\* starts where the previous one ends, the last ends at len.
C16_ModelChunksTileDocument ==
    ModelCalled =>
        /\ model_out.status = "ok"
        /\ model_out.slabs # <<>>
        /\ model_out.slabs[1].start = 0
        /\ model_out.slabs[Len(model_out.slabs)].end = Len(model_text)
        /\ \A k \in 1..Len(model_out.slabs) :
                /\ model_out.slabs[k].start < model_out.slabs[k].end
                /\ model_out.slabs[k].text # <<>>
        /\ \A k \in 1..(Len(model_out.slabs) - 1) :
                model_out.slabs[k + 1].start = model_out.slabs[k].end

\* C17: the index of the k-th emitted chunk, counted from 0, is k, also when
\* some cut-points are ignored.
C17_ModelIndicesSequential ==
    (ModelCalled /\ model_out.status = "ok") =>
        \A k \in 1..Len(model_out.slabs) : model_out.slabs[k].index = k - 1

C23_CodeTextIsSourceSlice ==
    CodeReturned =>
        \A k \in 1..Len(code_out.slabs) :
            LET slab == code_out.slabs[k]
            IN  /\ slab.start <= slab.end
                /\ slab.end <= Len(code_text)
                /\ slab.text = Slice(code_text, slab.start, slab.end)

\* a chunk seeded with overlap from its predecessor, and a chunk that spans
\* two atomic units and the gap between them
C23_Witness ==
    /\ CodeReturned
    /\ code.chunk_overlap > 0
    /\ \E k \in 2..Len(code_out.slabs) :
            /\ code_out.slabs[k].start < code_out.slabs[k - 1].end
            /\ code_out.slabs[k].end - code_out.slabs[k].start >= 2
    /\ \E k \in 1..Len(code_out.slabs) :
        \E a \in 1..(Len(code_out.atoms) - 1) :
            /\ code_out.slabs[k].start <= code_out.atoms[a].start
            /\ code_out.atoms[a].end < code_out.atoms[a + 1].start
            /\ code_out.atoms[a + 1].end <= code_out.slabs[k].end

\* the k-th chunk (from 0) of the closed form for single-byte text
ReferenceChunk(k) ==
    LET step == fixed.size - fixed.overlap
        first == k * step
        last == Min(first + fixed.size, Len(fixed_text))
    IN  Slab(Slice(fixed_text, first, last), first, last, k)

\* C24: the first chunk starts at 0; each chunk ends at min(start + size, len)
\* snapped backward to a character boundary; the next chunk starts at
\* start + step snapped forward to a character boundary; the last chunk has
\* start + step >= len.  On single-byte text of length L > 0 the chunks are
\* exactly [k*step, min(k*step + size, L)) for k = 0 .. ceil(L/step) - 1 and
\* their number is estimate_chunks(L).
C24_FixedFollowsReference ==
    (fixed.state = "ok" /\ fixed_text # <<>>) =>
        LET step == fixed.size - fixed.overlap
            len == Len(fixed_text)
            n == Len(fixed_slabs)
        IN  /\ n > 0 => fixed_slabs[1].start = 0
            /\ \A k \in 1..n :
                fixed_slabs[k].end =
                    FloorCharBoundary(fixed_text,
                                      Min(fixed_slabs[k].start + fixed.size, len))
            /\ \A k \in 1..(n - 1) :
                fixed_slabs[k + 1].start =
                    CeilCharBoundary(fixed_text, fixed_slabs[k].start + step)
            /\ n > 0 => fixed_slabs[n].start + step >= len
            /\ IsAscii(fixed_text) =>
                /\ n = CeilDiv(len, step)
                /\ n = EstimateChunks(fixed, len)
                /\ \A k \in 1..n : fixed_slabs[k] = ReferenceChunk(k - 1)

RECURSIVE RawStart(_)
\* the start of raw fragment i (from 1) before the overlap is applied
RawStart(i) ==
    IF i <= 1 THEN 0 ELSE RawStart(i - 1) + Len(rec_out.frags[i - 1])

\* C25: with overlap > 0, chunk 0 starts at 0 and the overlap-adjusted start
\* of every chunk i > 0 is not earlier than the pre-overlap start of chunk
\* i - 1.
C25_RecursiveOverlapWithinPrevious ==
    (RecReturned /\ recursive.overlap > 0) =>
        /\ rec_out.slabs # <<>> => rec_out.slabs[1].start = 0
        /\ \A i \in 2..Len(rec_out.slabs) :
                rec_out.slabs[i].start >= RawStart(i - 1)

\* C26: with chunk_overlap > 0 the overlap seeded after a flush is made of
\* whole atomic units and the gaps between them: every emitted chunk starts
\* where some atomic unit starts and ends where some atomic unit ends.
C26_CodeChunksAlignToUnits ==
    (CodeReturned /\ code.chunk_overlap > 0) =>
        \A k \in 1..Len(code_out.slabs) :
            /\ \E a \in 1..Len(code_out.atoms) :
                    code_out.atoms[a].start = code_out.slabs[k].start
            /\ \E a \in 1..Len(code_out.atoms) :
                    code_out.atoms[a].end = code_out.slabs[k].end

\* a chunk seeded with one whole unit that is longer than chunk_overlap
C26_Witness ==
    /\ CodeReturned
    /\ code.chunk_overlap > 0
    /\ code.max_chunk_size > code.chunk_overlap
    /\ \E k \in 2..Len(code_out.slabs) :
            /\ code_out.slabs[k].start < code_out.slabs[k - 1].end
            /\ code_out.slabs[k - 1].end - code_out.slabs[k].start
                    > code.chunk_overlap

\* the atomic unit that contributes the first bytes of the chunk
IsFirstUnitOf(unit, slab) == unit.start = slab.start /\ unit.end > unit.start

\* C27: with chunk_overlap = 0 a chunk is flushed only when the next atomic
\* unit and the gap before it would make it longer than max_chunk_size: for
\* consecutive chunks, len(chunk_k) + len(gap) + len(first unit of
\* chunk_{k+1}) > max_chunk_size, and chunk_{k+1}.start >= chunk_k.end.
C27_CodeMergeIsGreedy ==
    (CodeReturned /\ code.chunk_overlap = 0) =>
        \A k \in 1..(Len(code_out.slabs) - 1) :
            LET prev == code_out.slabs[k]
                curr == code_out.slabs[k + 1]
            IN  /\ curr.start >= prev.end
                /\ \E a \in 1..Len(code_out.atoms) :
                        IsFirstUnitOf(code_out.atoms[a], curr)
                /\ \A a \in 1..Len(code_out.atoms) :
                        IsFirstUnitOf(code_out.atoms[a], curr) =>
                            Len(prev.text) + (curr.start - prev.end)
                                + Len(code_out.atoms[a].text)
                                    > code.max_chunk_size

\* a chunk merged from two units that was flushed before a unit which, with
\* the gap in front of it, no longer fitted
C27_Witness ==
    /\ CodeReturned
    /\ code.chunk_overlap = 0
    /\ code.max_chunk_size >= 2
    /\ \E k \in 1..(Len(code_out.slabs) - 1) :
            /\ code_out.slabs[k + 1].start > code_out.slabs[k].end
            /\ Len(code_out.slabs[k].text) + Len(code_out.slabs[k + 1].text)
                    <= code.max_chunk_size
            /\ \E a \in 1..(Len(code_out.atoms) - 1) :
                    /\ code_out.atoms[a].start = code_out.slabs[k].start
                    /\ code_out.atoms[a].end > code_out.atoms[a].start
                    /\ code_out.atoms[a + 1].end = code_out.slabs[k].end
                    /\ code_out.atoms[a + 1].end > code_out.atoms[a + 1].start

IsOversizedNode(node) == node.end - node.start > code.max_chunk_size

RECURSIVE VisitedNodes(_)
\* the nodes collect_leafs is called on: the root, and the children of every
\* visited node that does not fit
VisitedNodes(node) ==
    {node} \cup
        IF IsOversizedNode(node)
        THEN UNION {VisitedNodes(node.children[k]) : k \in 1..Len(node.children)}
        ELSE {}

\* the ranges a node with children leaves between them and at its two edges
GapsOf(node) ==
    IF node.children = <<>> THEN {}
    ELSE {<<node.start, node.children[1].start>>,
          <<node.children[Len(node.children)].end, node.end>>}
         \cup {<<node.children[k].end, node.children[k + 1].start>> :
                    k \in 1..(Len(node.children) - 1)}

InSomeUnit(units, b) ==
    \E u \in 1..Len(units) : units[u].start <= b /\ b < units[u].end

\* the units that share a byte with the node's range, in emission order
UnitsInside(units, node) ==
    SelectSeq(units, LAMBDA u : u.start < node.end /\ u.end > node.start)

\* the units are one after the other from start to end, each the source slice
Tiles(units, start, end) ==
    /\ units # <<>>
    /\ units[1].start = start
    /\ units[Len(units)].end = end
    /\ \A k \in 1..(Len(units) - 1) : units[k].end = units[k + 1].start
    /\ \A k \in 1..Len(units) :
            /\ units[k].start < units[k].end
            /\ units[k].text = Slice(code_text, units[k].start, units[k].end)

\* C28: on a tree whose children lie inside their parent, in order and
\* without overlap, collect_leafs emits the atomic units in increasing start
\* order and pairwise disjoint; every byte of the root's range outside all
\* units lies in a whitespace-only gap between children; a node that fits in
\* max_chunk_size is emitted as exactly one unit; an oversized childless leaf
\* is replaced by sub-units that tile the leaf's range in document offsets.
C28_CollectLeafsDecomposes ==
    CodeReturned =>
        LET emitted == CollectLeafs(code, code_tree, code_text).units
            visited == VisitedNodes(code_tree)
        IN  /\ \A k \in 1..(Len(emitted) - 1) :
                    /\ emitted[k].start <= emitted[k + 1].start
                    /\ emitted[k].end <= emitted[k + 1].start
            /\ \A b \in code_tree.start..(code_tree.end - 1) :
                    ~InSomeUnit(emitted, b) =>
                        \E n \in visited : \E g \in GapsOf(n) :
                            /\ g[1] <= b /\ b < g[2]
                            /\ Trim(Slice(code_text, g[1], g[2])) = <<>>
            /\ \A n \in visited :
                    /\ (~IsOversizedNode(n)) =>
                        /\ \E u \in 1..Len(emitted) :
                                emitted[u] = Slab(Slice(code_text, n.start, n.end),
                                                  n.start, n.end, 0)
                        /\ n.end > n.start => Len(UnitsInside(emitted, n)) = 1
                    /\ (IsOversizedNode(n) /\ n.children = <<>>) =>
                        Tiles(UnitsInside(emitted, n), n.start, n.end)

\* an oversized leaf away from offset 0 was split into sub-units, a child
\* that fits came out as one unit, and a blank gap was left out
C28_Witness ==
    /\ CodeReturned
    /\ \E k \in 1..Len(code_tree.children) :
            LET n == code_tree.children[k]
            IN  /\ n.children = <<>>
                /\ n.start > 0
                /\ IsOversizedNode(n)
    /\ \E k \in 1..Len(code_tree.children) :
            LET n == code_tree.children[k]
            IN  n.end > n.start /\ ~IsOversizedNode(n)
    /\ \E b \in 0..(Len(code_text) - 1) : ~InSomeUnit(code_out.atoms, b)

\* the bytes of a seed: from the start of its earliest unit to the end of its
\* latest one, units and the gaps between them
SeedBytes(units) ==
    code_out.atoms[units[1] + 1].end - code_out.atoms[units[Len(units)] + 1].start

\* C29: with chunk_overlap > 0, every flush seeds the next chunk with at least
\* one atomic unit, starting with the unit immediately before the current one,
\* which was in the flushed chunk; a seed is longer than chunk_overlap bytes
\* only when it is that one unit, and a seed of two or more units holds at
\* most chunk_overlap bytes.
C29_CodeSeedBounded ==
    (CodeReturned /\ code.chunk_overlap > 0) =>
        /\ Len(code_out.seeds) >= Len(code_out.slabs) - 1
        /\ \A s \in 1..Len(code_out.seeds) :
            LET seed == code_out.seeds[s]
                flushed == code_out.slabs[s]
            IN  /\ seed.units # <<>>
                /\ seed.units[1] = seed.before - 1
                /\ \A u \in 1..(Len(seed.units) - 1) :
                        seed.units[u + 1] = seed.units[u] - 1
                /\ flushed.start <= code_out.atoms[seed.before].start
                /\ flushed.end = code_out.atoms[seed.before].end
                /\ SeedBytes(seed.units) > code.chunk_overlap =>
                        Len(seed.units) = 1
                /\ Len(seed.units) >= 2 =>
                        SeedBytes(seed.units) <= code.chunk_overlap

\* a flush whose seed is two units that fill chunk_overlap, before a unit
\* that then joins the seed in the next chunk
C29_Witness ==
    /\ CodeReturned
    /\ code.chunk_overlap > 0
    /\ \E s \in 1..Len(code_out.seeds) :
            /\ Len(code_out.seeds[s].units) >= 2
            /\ SeedBytes(code_out.seeds[s].units) = code.chunk_overlap
            /\ \A u \in 1..Len(code_out.seeds[s].units) :
                    code_out.atoms[code_out.seeds[s].units[u] + 1].text # <<>>
            /\ Len(code_out.slabs) > s
            /\ code_out.slabs[s + 1].start
                    = code_out.atoms[code_out.seeds[s].before - 1].start

\* C30: for any chunk_overlap and every pair of consecutive chunks,
\* curr.end > prev.end and curr.start > prev.start: no chunk is wholly inside
\* the chunk that follows it and the starts strictly increase.
C30_CodeChunksAdvance ==
    CodeReturned =>
        \A k \in 1..(Len(code_out.slabs) - 1) :
            /\ code_out.slabs[k + 1].end > code_out.slabs[k].end
            /\ code_out.slabs[k + 1].start > code_out.slabs[k].start

====
